---- MODULE Spec2Model ----
(***************************************************************************)
(* Model of src/app.py: the helper coercions, the backend client           *)
(* (api_health, api_run_now, api_latest), the metrics normalizer           *)
(* (metrics_kpis, compute_risk_score) and the Streamlit script run         *)
(* (sidebar, Run / Refresh handlers, auto-refresh block, render tail),     *)
(* and of the retry loop of call_github_models in src/tools/ai_update.py.  *)
(*                                                                         *)
(* Four specifications share the variables:                                *)
(*   SpecNorm  the normalizer applied to one payload                       *)
(*   SpecApi   one backend client call on one HTTP outcome                 *)
(*   SpecCalls one call of call_github_models or of a client function,     *)
(*             counting the HTTP requests it makes                         *)
(*   Spec      the session: a sequence of script runs (render passes)      *)
(***************************************************************************)
EXTENDS Integers, Sequences, FiniteSets, TLC

VARIABLES
    \* ---- normalizer harness
    metrics,          \* the argument of metrics_kpis
    kpis,             \* what metrics_kpis returned
    risk,             \* what compute_risk_score(k["raw"]) returned
    npc,              \* "input" | "done"
    \* ---- backend client harness
    resp,             \* the outcome of the one HTTP request of the call
    ret,              \* what the api_* function returned
    http_calls,       \* requests.get / requests.post calls made by the call
    \* ---- session (st.session_state, widgets, one script run)
    backend_url,      \* st.session_state["backend_url"]
    auto_refresh,     \* st.session_state["auto_refresh"]
    refresh_seconds,  \* the slider's value
    latest_metrics,   \* st.session_state["latest_metrics"]
    prev_metrics,     \* st.session_state["prev_metrics"]
    _last_refresh,    \* st.session_state.get("_last_refresh", 0.0)
    now,              \* the wall clock, seconds
    pc,               \* position of the script run
    button,           \* the button whose click started this run
    health,           \* (ok, msg) of api_health in this run
    status,           \* content of status_placeholder
    sent,             \* requests that went to the backend in this run
    run_http,         \* HTTP status of POST /run in this run (0: none)
    last_latest,      \* the most recent GET /metrics/latest outcome
    auto_fetched,     \* the auto-refresh block called api_latest in this run
    last_fetch_at,    \* clock at the most recent api_latest call (0: none)
    last_auto_at,     \* clock at the most recent api_latest call of the
                      \* auto-refresh block (0: none)
    view,             \* what the render tail drew
    \* ---- tools/ai_update.py: one call of call_github_models
    gm_pc,            \* "off" | "post" | "sleep" | "raise" | "returned" | "raised"
    attempt,          \* the loop variable of the retry loop
    gm_r,             \* the outcome of the POST of this attempt
    last_err,         \* last_err
    sleeps,           \* the arguments of time.sleep so far, in order
    outcomes,         \* for every POST so far: did the attempt succeed
    gm_ret            \* what call_github_models returned or raised

normVars == <<metrics, kpis, risk, npc>>
apiVars == <<resp, ret, http_calls>>
sessVars == <<backend_url, auto_refresh, refresh_seconds, latest_metrics,
              prev_metrics, _last_refresh, now, pc, button, health, status,
              sent, run_http, last_latest, auto_fetched, last_fetch_at, last_auto_at,
              view>>
gmVars == <<gm_pc, attempt, gm_r, last_err, sleeps, outcomes, gm_ret>>
vars == <<normVars, apiVars, sessVars, gmVars>>

(***************************************************************************)
(* Python values.  A value is a record [t, n, s]: t the type, n the        *)
(* integer / truth value / length, s the characters of a string.           *)
(***************************************************************************)
PyNone == [t |-> "none", n |-> 0, s |-> <<>>]
Absent == [t |-> "absent", n |-> 0, s |-> <<>>]   \* key not in the dict
PyBool(b) == [t |-> "bool", n |-> IF b THEN 1 ELSE 0, s |-> <<>>]
PyInt(i) == [t |-> "int", n |-> i, s |-> <<>>]
PyStr(cs) == [t |-> "str", n |-> 0, s |-> cs]
PyList(len) == [t |-> "list", n |-> len, s |-> <<>>]
PyDict(len) == [t |-> "dict", n |-> len, s |-> <<>>]

\* Python truthiness, as `or` and `not` evaluate it.
Truthy(x) ==
    CASE x.t = "none" -> FALSE
      [] x.t = "absent" -> FALSE
      [] x.t = "bool" -> x.n = 1
      [] x.t = "int" -> x.n # 0
      [] x.t = "str" -> x.s # <<>>
      [] OTHER -> x.n > 0

\* a or b
PyOr(a, b) == IF Truthy(a) THEN a ELSE b

Digits == {"0", "7"}
DigitVal(c) == IF c = "7" THEN 7 ELSE 0

RECURSIVE DigitsVal(_)
DigitsVal(cs) ==
    IF cs = <<>> THEN 0
    ELSE 10 * DigitsVal(SubSeq(cs, 1, Len(cs) - 1)) + DigitVal(cs[Len(cs)])

AllDigits(cs) == cs # <<>> /\ \A i \in 1..Len(cs) : cs[i] \in Digits

\* int(x): [ok |-> the call returned, v |-> its value]; ok = FALSE is a
\* TypeError (None, list, dict) or a ValueError (a string that is no integer
\* literal).
PyIntOf(x) ==
    CASE x.t = "bool" -> [ok |-> TRUE, v |-> x.n]
      [] x.t = "int" -> [ok |-> TRUE, v |-> x.n]
      [] x.t = "str" ->
            IF AllDigits(x.s) THEN [ok |-> TRUE, v |-> DigitsVal(x.s)]
            ELSE IF x.s # <<>> /\ Head(x.s) = "-" /\ AllDigits(Tail(x.s))
                 THEN [ok |-> TRUE, v |-> 0 - DigitsVal(Tail(x.s))]
                 ELSE [ok |-> FALSE, v |-> 0]
      [] OTHER -> [ok |-> FALSE, v |-> 0]

\* A function's outcome: exc = TRUE when an exception left it.
Returned(i) == [exc |-> FALSE, v |-> i]
Raised == [exc |-> TRUE, v |-> 0]

\* _safe_int without its except clause.
_safe_int_noexcept(x, default) ==
    IF x = PyNone THEN Returned(default)
    ELSE IF PyIntOf(x).ok THEN Returned(PyIntOf(x).v) ELSE Raised

_safe_int(x, default) ==
    IF x = PyNone THEN Returned(default)
    ELSE IF PyIntOf(x).ok THEN Returned(PyIntOf(x).v) ELSE Returned(default)

(***************************************************************************)
(* The metrics payload.  The object handed to metrics_kpis is a record     *)
(* [kind, n, d]: kind "dict" with d its entries (Absent: no such key), or  *)
(* a non-dict ("none", or "list" of length n).                             *)
(***************************************************************************)
active_users_aliases == <<"active_users", "users_active">>
empjob_rows_aliases ==
    <<"empjob_rows", "current_empjob_rows", "empJob_rows", "empjob_count">>
missing_managers_aliases == <<"missing_manager_count", "missing_managers">>
invalid_org_aliases ==
    <<"invalid_org_count", "invalid_org", "invalid_org_assignments">>
missing_emails_aliases == <<"missing_email_count", "missing_emails">>
contingent_workers_aliases == <<"contingent_workers", "contingent_worker_count">>
inactive_users_aliases ==
    <<"inactive_users", "inactive_user_count", "users_inactive">>
\* the aliases of the snapshot time, tried in the other order
snapshot_time_aliases_swapped == <<"snapshotTimeUtc", "snapshot_time_utc">>
snapshot_time_aliases == <<"snapshot_time_utc", "snapshotTimeUtc">>

Range(q) == {q[i] : i \in 1..Len(q)}

KpiNames == {"active_users", "empjob_rows", "missing_managers", "invalid_org",
             "missing_emails", "contingent_workers", "inactive_users"}

AliasesOf(name) ==
    CASE name = "active_users" -> active_users_aliases
      [] name = "empjob_rows" -> empjob_rows_aliases
      [] name = "missing_managers" -> missing_managers_aliases
      [] name = "invalid_org" -> invalid_org_aliases
      [] name = "missing_emails" -> missing_emails_aliases
      [] name = "contingent_workers" -> contingent_workers_aliases
      [] name = "inactive_users" -> inactive_users_aliases
      [] OTHER -> snapshot_time_aliases

\* Keys a payload may carry: every key the code reads, and the camelCase
\* count key missingEmailsCount, which it does not read.
AllKeys ==
    {"active_users", "users_active",
     "empjob_rows", "current_empjob_rows", "empJob_rows", "empjob_count",
     "missing_manager_count", "missing_managers",
     "invalid_org_count", "invalid_org", "invalid_org_assignments",
     "missing_email_count", "missing_emails",
     "contingent_workers", "contingent_worker_count",
     "inactive_users", "inactive_user_count", "users_inactive",
     "snapshot_time_utc", "snapshotTimeUtc",
     "risk_score", "missingEmailsCount"}

EmptyEntries == [k \in AllKeys |-> Absent]
DictOf(d) == [kind |-> "dict", n |-> 0, d |-> d]
EmptyDict == DictOf(EmptyEntries)
NoneObj == [kind |-> "none", n |-> 0, d |-> EmptyEntries]
ListObj(len) == [kind |-> "list", n |-> len, d |-> EmptyEntries]

\* not x, for the object
ObjTruthy(x) ==
    CASE x.kind = "dict" -> \E k \in AllKeys : x.d[k] # Absent
      [] x.kind = "list" -> x.n > 0
      [] OTHER -> FALSE

_safe_dict(x) == IF x.kind = "dict" THEN x ELSE EmptyDict

\* m.get(k) on a dict m
Get(m, k) == IF m.d[k] = Absent THEN PyNone ELSE m.d[k]

\* the chain cut after its first key
OrChain_first(m, ks) == Get(m, ks[1])

\* m.get(k1) or m.get(k2) or ... or m.get(kn)
RECURSIVE OrChain(_, _)
OrChain(m, ks) ==
    IF Len(ks) = 1 THEN Get(m, ks[1])
    ELSE PyOr(Get(m, ks[1]), OrChain(m, Tail(ks)))

NoKpis ==
    [exc |-> FALSE, active_users |-> 0, empjob_rows |-> 0,
     missing_managers |-> 0, invalid_org |-> 0, missing_emails |-> 0,
     contingent_workers |-> 0, inactive_users |-> 0,
     snapshot_time_utc |-> PyStr(<<>>), raw |-> EmptyEntries]

metrics_kpis(x) ==
    LET m == _safe_dict(x)
        int(name) == _safe_int(OrChain(m, AliasesOf(name)), 0)
    IN  IF m.kind # "dict" \/ \E name \in KpiNames : int(name).exc
        THEN [NoKpis EXCEPT !.exc = TRUE]     \* AttributeError on m.get, or int()
        ELSE [exc |-> FALSE,
              active_users |-> int("active_users").v,
              empjob_rows |-> int("empjob_rows").v,
              missing_managers |-> int("missing_managers").v,
              invalid_org |-> int("invalid_org").v,
              missing_emails |-> int("missing_emails").v,
              contingent_workers |-> int("contingent_workers").v,
              inactive_users |-> int("inactive_users").v,
              snapshot_time_utc |->
                  PyOr(OrChain(m, snapshot_time_aliases), PyStr(<<>>)),
              raw |-> m.d]

compute_risk_score(m) ==
    IF m.kind = "dict" /\ m.d["risk_score"] # Absent
    THEN _safe_int(Get(m, "risk_score"), 0)
    ELSE IF m.kind # "dict" THEN Raised      \* AttributeError on metrics.get
    ELSE LET mm == _safe_int(PyOr(Get(m, "missing_manager_count"),
                                  Get(m, "missing_managers")), 0)
             inv == _safe_int(PyOr(Get(m, "invalid_org_count"),
                                   Get(m, "invalid_org")), 0)
             me == _safe_int(PyOr(Get(m, "missing_email_count"),
                                  Get(m, "missing_emails")), 0)
             iu == _safe_int(PyOr(Get(m, "inactive_users"),
                                  Get(m, "inactive_user_count")), 0)
         IN  IF mm.exc \/ inv.exc \/ me.exc \/ iu.exc THEN Raised
             ELSE Returned((mm.v * 2) + (inv.v * 1) + (me.v * 1) + (iu.v * 1))

(***************************************************************************)
(* SpecNorm: metrics_kpis and compute_risk_score applied to one payload,   *)
(* as the render tail applies them (k = metrics_kpis(metrics), then        *)
(* compute_risk_score(k["raw"])).                                          *)
(***************************************************************************)
MaxInt == 1       \* integers of a payload are in -MaxInt..MaxInt
MaxKeys == 3      \* keys present in a payload

StrSamples == {<<>>, <<"0">>, <<"7">>, <<"-", "7">>, <<"x">>}

Values ==
    {PyNone, PyBool(TRUE), PyBool(FALSE)}
        \cup {PyInt(i) : i \in (0 - MaxInt)..MaxInt}
        \cup {PyStr(cs) : cs \in StrSamples}
        \cup {PyList(0), PyList(1), PyDict(0), PyDict(1)}

\* The keys of a payload are taken from one group: the aliases of one KPI or
\* of the snapshot time, the backend's risk_score, or missing_emails with
\* the camelCase key.
KeyGroups ==
    {Range(AliasesOf(k)) : k \in KpiNames \cup {"snapshot_time_utc"}}
        \cup {{"risk_score", "missing_managers"},
              {"missing_emails", "missingEmailsCount"}}

Entries(S, f) == [k \in AllKeys |-> IF k \in S THEN f[k] ELSE Absent]

\* The inputs of the normalizer: a non-dict, or a dict with at most MaxKeys
\* keys of one group.
IsNormInput(x) ==
    \/ x \in {NoneObj, ListObj(0), ListObj(1)}
    \/ \E G \in KeyGroups :
         \E S \in {T \in SUBSET G : Cardinality(T) <= MaxKeys} :
            \E f \in [S -> Values] : x = DictOf(Entries(S, f))

NoRet == [fn |-> "none", exc |-> FALSE, ok |-> FALSE, msg |-> "none",
          code |-> 0, ts |-> PyNone, metrics |-> NoneObj]
NoResp == [exc |-> FALSE, code |-> 0, ctype |-> "none", json |-> "none",
           status |-> "none", metrics |-> NoneObj, ts |-> PyNone]
NoView == [kind |-> "none", k |-> NoKpis, risk |-> 0, caption |-> PyNone]
NoStatus == [level |-> "none", msg |-> "none", code |-> 0]
NoLatest == [kind |-> "none", loaded_before |-> FALSE, fetched |-> NoneObj]

ApiIdle == resp = NoResp /\ ret = NoRet /\ http_calls = 0

NoGmResp == [exc |-> FALSE, code |-> 0, body |-> "none", content |-> "none"]
NoGmRet == [kind |-> "none", v |-> "none", err |-> "none"]
GmIdle ==
    /\ gm_pc = "off" /\ attempt = 0 /\ gm_r = NoGmResp /\ last_err = "none"
    /\ sleeps = <<>> /\ outcomes = <<>> /\ gm_ret = NoGmRet

SessIdle ==
    /\ backend_url = "" /\ auto_refresh = FALSE /\ refresh_seconds = 0
    /\ latest_metrics = NoneObj /\ prev_metrics = NoneObj
    /\ _last_refresh = 0 /\ now = 0 /\ pc = "off" /\ button = "none"
    /\ health = NoRet /\ status = NoStatus /\ sent = {} /\ run_http = 0
    /\ last_latest = NoLatest /\ auto_fetched = FALSE /\ last_fetch_at = 0
    /\ last_auto_at = 0
    /\ view = NoView

NormIdle ==
    metrics = NoneObj /\ kpis = NoKpis /\ risk = Returned(0) /\ npc = "off"

InitNorm ==
    /\ IsNormInput(metrics)
    /\ kpis = NoKpis
    /\ risk = Returned(0)
    /\ npc = "input"
    /\ ApiIdle /\ SessIdle /\ GmIdle

\* k = metrics_kpis(metrics); compute_risk_score(k["raw"])
Normalize ==
    /\ npc = "input"
    /\ kpis' = metrics_kpis(metrics)
    /\ risk' = IF kpis'.exc THEN Raised
               ELSE compute_risk_score(DictOf(kpis'.raw))
    /\ npc' = "done"
    /\ UNCHANGED <<metrics, apiVars, sessVars, gmVars>>

NextNorm == Normalize

SpecNorm == InitNorm /\ [][NextNorm]_vars

(***************************************************************************)
(* Claims on the normalizer (checked under SpecNorm)                       *)
(***************************************************************************)
Present(k) == metrics.kind = "dict" /\ metrics.d[k] # Absent
PresentKeys == {k \in AllKeys : Present(k)}

\* C1: metrics_kpis is total: on every input (a dict with any of the known
\* keys mapped to None, booleans, integers, strings, lists or dicts, or a
\* non-dict) it returns a KPI record and no exception leaves it.
C1_Total ==
    npc = "done" =>
        /\ ~kpis.exc
        /\ \A name \in KpiNames : kpis[name] \in Int
        /\ kpis.raw = _safe_dict(metrics).d

\* a payload whose value makes int() fail has been normalized
C1_Witness ==
    /\ npc = "done"
    /\ Present("active_users")
    /\ metrics.d["active_users"] = PyStr(<<"x">>)
    /\ ~kpis.exc
    /\ kpis.active_users = 0

\* C2: every canonical integer KPI and the risk score is an integer >= 0,
\* also when the upstream value is negative, null, boolean, a stringified
\* number or missing.
C2_NonNegative ==
    npc = "done" =>
        /\ \A name \in KpiNames : kpis[name] \in Nat
        /\ risk.v \in Nat

\* the value of the first key of ks that is present in m (None: no key is)
RECURSIVE FirstPresent(_, _)
FirstPresent(m, ks) ==
    IF ks = <<>> THEN PyNone
    ELSE IF m.d[Head(ks)] # Absent THEN m.d[Head(ks)]
    ELSE FirstPresent(m, Tail(ks))

IntOrZero(x) == IF PyIntOf(x).ok THEN PyIntOf(x).v ELSE 0

\* C3: each KPI is the int coercion (0 on failure) of the value of the first
\* alias key present in the payload; a later alias counts only when every
\* earlier alias key is absent (first alias 0, later alias non-zero: 0).
C3_FirstPresent ==
    (npc = "done" /\ metrics.kind = "dict") =>
        \A name \in KpiNames :
            kpis[name] = IntOrZero(FirstPresent(metrics, AliasesOf(name)))

\* the payload m with the entry of key a moved to key b
Renamed(m, a, b) ==
    DictOf([k \in AllKeys |->
              IF k = b THEN m.d[a] ELSE IF k = a THEN Absent ELSE m.d[k]])

\* the camelCase aliases the claim names, and their snake_case keys
CamelOf(k) ==
    CASE k = "missing_emails" -> "missingEmailsCount"
      [] k = "snapshot_time_utc" -> "snapshotTimeUtc"
      [] OTHER -> k

SameCanonical(k1, k2) ==
    /\ \A name \in KpiNames : k1[name] = k2[name]
    /\ k1.snapshot_time_utc = k2.snapshot_time_utc

Unknown == PyStr(<<"u", "n", "k", "n", "o", "w", "n">>)

Ret(fn, ok, msg, code, m) ==
    [fn |-> fn, exc |-> FALSE, ok |-> ok, msg |-> msg, code |-> code,
     ts |-> PyNone, metrics |-> m]
Propagated(fn) ==
    [fn |-> fn, exc |-> TRUE, ok |-> FALSE, msg |-> "none", code |-> 0,
     ts |-> PyNone, metrics |-> NoneObj]

ExcResp == [NoResp EXCEPT !.exc = TRUE]

\* requests.get / requests.post of base_url + path: a URL without scheme
\* raises before anything is sent.
Request(base_url, r) == IF base_url = "" THEN ExcResp ELSE r

api_health(r) ==
    IF r.exc THEN Ret("api_health", FALSE, "Backend unreachable", 0, NoneObj)
    ELSE IF r.code = 200
         THEN Ret("api_health", TRUE, "Backend reachable", 0, NoneObj)
         ELSE Ret("api_health", FALSE, "Backend not healthy (HTTP)", r.code,
                  NoneObj)

\* _fmt_ts: "-" for a falsy value; an ISO timestamp in UTC (written with Z
\* or +00:00) is reformatted; anything else (fromisoformat raises, or the
\* value has no .replace) comes back as it is.  A timestamp string is the
\* sequence <<date and time, zone>>.
Dash == PyStr(<<"-">>)
IsoStamp == "2024-01-01T00:00:00"
_fmt_ts(ts) ==
    IF ~Truthy(ts) THEN Dash
    ELSE IF ts.t = "str" /\ ts.s \in {<<IsoStamp, "Z">>, <<IsoStamp, "+00:00">>}
         THEN PyStr(<<"2024-01-01 00:00:00 UTC">>)
         ELSE ts

api_run_now(r) ==
    IF r.exc THEN Ret("api_run_now", FALSE, "Run failed (exception)", 0, NoneObj)
    ELSE IF r.code = 200
         THEN IF r.ctype = "json" /\ r.json # "object"
              THEN \* r.json() or data.get raised
                   Ret("api_run_now", FALSE, "Run failed (exception)", 0, NoneObj)
              ELSE LET ts == IF r.ctype = "json"
                                 THEN PyOr(r.ts, PyStr(<<>>))
                                 ELSE PyStr(<<>>)       \* data = {}
                   IN  [Ret("api_run_now", TRUE, "Run complete", 0, NoneObj)
                           EXCEPT !.ts = _fmt_ts(ts)]
         ELSE Ret("api_run_now", FALSE, "Run failed (HTTP)", r.code, NoneObj)

\* data.get("metrics") or {}
MetricsOrEmpty(m) == IF ObjTruthy(m) THEN m ELSE EmptyDict

\* api_latest without its except clause
api_latest_noexcept(r) ==
    IF r.exc THEN Propagated("api_latest")
    ELSE IF r.code # 200
         THEN Ret("api_latest", FALSE, "Fetch failed (HTTP)", r.code, NoneObj)
         ELSE IF r.json # "object" THEN Propagated("api_latest")
         ELSE IF r.status = "empty"
              THEN Ret("api_latest", FALSE, "No snapshots yet", 0, NoneObj)
              ELSE Ret("api_latest", TRUE, "Latest snapshot loaded", 0,
                       MetricsOrEmpty(r.metrics))

api_latest(r) ==
    IF r.exc
    THEN Ret("api_latest", FALSE, "Fetch failed (exception)", 0, NoneObj)
    ELSE IF r.code # 200
         THEN Ret("api_latest", FALSE, "Fetch failed (HTTP)", r.code, NoneObj)
         ELSE IF r.json # "object"
              THEN \* r.json() or data.get raised
                   Ret("api_latest", FALSE, "Fetch failed (exception)", 0,
                       NoneObj)
         ELSE IF r.status = "empty"
              THEN Ret("api_latest", FALSE, "No snapshots yet", 0, NoneObj)
              ELSE Ret("api_latest", TRUE, "Latest snapshot loaded", 0,
                       MetricsOrEmpty(r.metrics))

\* Snapshots a backend answers with: no keys, KPIs all zero, KPIs not zero.
ZeroSnapshot ==
    DictOf([EmptyEntries EXCEPT !["active_users"] = PyInt(0),
                                !["missing_manager_count"] = PyInt(0)])
DataSnapshot ==
    DictOf([EmptyEntries EXCEPT !["active_users"] = PyInt(7),
                                !["missing_manager_count"] = PyInt(1)])

HttpCodes == {200, 204, 404, 500}

Responses ==
    {ExcResp} \cup
    [exc : {FALSE}, code : HttpCodes, ctype : {"json", "text"},
     json : {"invalid", "nonobject"}, status : {"absent"},
     metrics : {NoneObj}, ts : {PyNone}] \cup
    [exc : {FALSE}, code : HttpCodes, ctype : {"json", "text"},
     json : {"object"}, status : {"ok", "empty", "absent"},
     metrics : {NoneObj, EmptyDict, ZeroSnapshot, DataSnapshot, ListObj(1)},
     ts : {PyNone, PyStr(<<>>), PyStr(<<"7">>), PyStr(<<IsoStamp, "Z">>),
           PyInt(7)}]

(***************************************************************************)
(* SpecApi: one client call at a time, on any HTTP outcome.                *)
(***************************************************************************)
InitApi == ApiIdle /\ NormIdle /\ SessIdle /\ GmIdle

CallHealth ==
    /\ ret.fn = "none"
    /\ \E r \in Responses :
        /\ resp' = r /\ ret' = api_health(r)
        /\ http_calls' = http_calls + 1
        /\ UNCHANGED <<normVars, sessVars, gmVars>>

CallRunNow ==
    /\ ret.fn = "none"
    /\ \E r \in Responses :
        /\ resp' = r /\ ret' = api_run_now(r)
        /\ http_calls' = http_calls + 1
        /\ UNCHANGED <<normVars, sessVars, gmVars>>

CallLatest ==
    /\ ret.fn = "none"
    /\ \E r \in Responses :
        /\ resp' = r /\ ret' = api_latest(r)
        /\ http_calls' = http_calls + 1
        /\ UNCHANGED <<normVars, sessVars, gmVars>>

NextApi == CallHealth \/ CallRunNow \/ CallLatest

SpecApi == InitApi /\ [][NextApi]_vars

\* C5: on every outcome of the HTTP request (exception, any status code,
\* any body) api_health, api_run_now and api_latest return a tuple and let
\* no exception out; its first element is False whenever the request
\* failed or the status is not 200.
C5_NeverRaises ==
    ret.fn # "none" =>
        /\ ~ret.exc
        /\ (resp.exc \/ resp.code # 200) => ~ret.ok

\* api_latest has returned on a 200 answer whose JSON body is no object
C5_Witness ==
    /\ ret.fn = "api_latest"
    /\ ~resp.exc /\ resp.code = 200 /\ resp.json = "nonobject"
    /\ ~ret.exc /\ ~ret.ok

(***************************************************************************)
(* Spec: the session.  Every user interaction starts one run of the        *)
(* script, which goes through the sidebar (api_health), the handler of the *)
(* clicked button, the auto-refresh block and the render tail.             *)
(***************************************************************************)
SliderMin == 10
SliderMax == 120
SliderDefault == 30
SliderStep == 5

MaxTicks == 2      \* the clock runs for MaxTicks steps of SliderStep seconds
MaxAdvance == 2    \* steps the clock advances between two script runs

\* time.time() at page load: far beyond any interval of the slider
Epoch == SliderMax * SliderMax

DEFAULT_BACKEND_URL == "https://your-render-backend.onrender.com"
Urls == {"", DEFAULT_BACKEND_URL}

\* the slider position a user picks (the default stays out of reach of the clock)
RefreshChoices == {SliderMin}

OkResp(m) ==
    [exc |-> FALSE, code |-> 200, ctype |-> "json", json |-> "object",
     status |-> "ok", metrics |-> m, ts |-> PyStr(<<IsoStamp, "Z">>)]
EmptyResp == [OkResp(NoneObj) EXCEPT !.status = "empty"]
ErrResp(c) ==
    [exc |-> FALSE, code |-> c, ctype |-> "json", json |-> "object",
     status |-> "absent", metrics |-> NoneObj, ts |-> PyNone]

HealthResponses == {ExcResp, ErrResp(500), OkResp(NoneObj)}
RunResponses == {ExcResp, ErrResp(500), OkResp(NoneObj)}
LatestResponses ==
    {ExcResp, ErrResp(500), EmptyResp, OkResp(NoneObj), OkResp(ZeroSnapshot),
     OkResp(DataSnapshot)}

Status(level, msg, code) == [level |-> level, msg |-> msg, code |-> code]

\* what a GET /metrics/latest outcome was, whether a snapshot was loaded
\* when it arrived, and the metrics api_latest returned for it
LatestKind(r) ==
    IF r.exc THEN "exception"
    ELSE IF r.code # 200 THEN "http_error"
    ELSE IF r.json # "object" THEN "not_an_object"
    ELSE IF r.status = "empty" THEN "empty" ELSE "ok"
Seen(r) ==
    [kind |-> LatestKind(r), loaded_before |-> ObjTruthy(latest_metrics),
     fetched |-> api_latest(r).metrics]

\* requests that reach the backend: none for a URL without scheme
SentBy(names) == IF backend_url = "" THEN {} ELSE names

Init ==
    /\ NormIdle /\ ApiIdle /\ GmIdle
    /\ backend_url = DEFAULT_BACKEND_URL
    /\ auto_refresh = FALSE
    /\ refresh_seconds = SliderDefault
    /\ latest_metrics = NoneObj
    /\ prev_metrics = NoneObj
    /\ _last_refresh = 0
    /\ now = Epoch
    /\ pc = "sidebar"
    /\ button = "none"
    /\ health = NoRet
    /\ status = NoStatus
    /\ sent = {}
    /\ run_http = 0
    /\ last_latest = NoLatest
    /\ auto_fetched = FALSE
    /\ last_fetch_at = 0
    /\ last_auto_at = 0
    /\ view = NoView

\* A widget interaction reruns the script from the top: the placeholder and
\* everything drawn are new, session_state is kept.
StartRun(b) ==
    /\ pc = "done"
    /\ pc' = "sidebar"
    /\ button' = b
    /\ \E d \in 0..MaxAdvance :
          /\ now + d * SliderStep <= Epoch + MaxTicks * SliderStep
          /\ now' = now + d * SliderStep
    /\ health' = NoRet
    /\ status' = NoStatus
    /\ sent' = {}
    /\ run_http' = 0
    /\ auto_fetched' = FALSE
    /\ view' = NoView
    /\ UNCHANGED <<latest_metrics, prev_metrics, _last_refresh, last_latest,
                   last_fetch_at, last_auto_at, normVars, apiVars, gmVars>>

EditBackendUrl ==
    /\ \E u \in Urls \ {backend_url} : backend_url' = u
    /\ StartRun("none")
    /\ UNCHANGED <<auto_refresh, refresh_seconds>>

ToggleAutoRefresh ==
    /\ auto_refresh' = ~auto_refresh
    /\ StartRun("none")
    /\ UNCHANGED <<backend_url, refresh_seconds>>

\* the slider is disabled while auto_refresh is off
MoveSlider ==
    /\ auto_refresh
    /\ \E v \in RefreshChoices \ {refresh_seconds} : refresh_seconds' = v
    /\ StartRun("none")
    /\ UNCHANGED <<backend_url, auto_refresh>>

\* any other rerun (the PDF toggle, a page interaction)
Rerun ==
    /\ StartRun("none")
    /\ UNCHANGED <<backend_url, auto_refresh, refresh_seconds>>

ClickRun ==
    /\ StartRun("run")
    /\ UNCHANGED <<backend_url, auto_refresh, refresh_seconds>>

ClickRefresh ==
    /\ StartRun("refresh")
    /\ UNCHANGED <<backend_url, auto_refresh, refresh_seconds>>

\* with st.sidebar: ... api_health(backend_url) ...; then the state defaults
Sidebar ==
    /\ pc = "sidebar"
    /\ \E r \in HealthResponses : health' = api_health(Request(backend_url, r))
    /\ sent' = sent \cup SentBy({"health"})
    /\ pc' = IF button = "none" THEN "auto" ELSE "actions"
    /\ UNCHANGED <<backend_url, auto_refresh, refresh_seconds, latest_metrics,
                   prev_metrics, _last_refresh, now, button, status, run_http,
                   last_latest, auto_fetched, last_fetch_at, last_auto_at, view,
                   normVars, apiVars, gmVars>>

\* a failed fetch dropping the loaded snapshot
Loaded_clearing(rl) ==
    /\ prev_metrics' = IF rl.ok THEN latest_metrics ELSE prev_metrics
    /\ latest_metrics' = IF rl.ok THEN rl.metrics ELSE NoneObj

\* a successful fetch that does not move the old snapshot to prev_metrics
Loaded_keeping_prev(rl) ==
    /\ prev_metrics' = prev_metrics
    /\ latest_metrics' = IF rl.ok THEN rl.metrics ELSE latest_metrics

\* st.session_state after `ok_latest, metrics, _ = api_latest(...)` and the
\* two assignments under `if ok_latest`
Loaded(rl) ==
    /\ prev_metrics' = IF rl.ok THEN latest_metrics ELSE prev_metrics
    /\ latest_metrics' = IF rl.ok THEN rl.metrics ELSE latest_metrics

\* if st.button("Run live check now"): ...
RunHandler ==
    /\ pc = "actions" /\ button = "run"
    /\ \E r1 \in RunResponses, r2 \in LatestResponses :
          LET q1 == Request(backend_url, r1)
              q2 == Request(backend_url, r2)
              rr == api_run_now(q1)
              rl == api_latest(q2)
              after_run == IF rr.ok THEN Status("success", rr.msg, rr.code)
                           ELSE Status("error", rr.msg, rr.code)
          IN  /\ run_http' = IF q1.exc THEN 0 ELSE q1.code
              /\ Loaded(rl)
              /\ status' = IF rl.ok
                           THEN Status("success", "Latest snapshot updated", 0)
                           ELSE Status("warning", rl.msg, rl.code)
              /\ last_latest' = Seen(q2)
    /\ sent' = sent \cup SentBy({"run", "latest"})
    /\ last_fetch_at' = now
    /\ pc' = "auto"
    /\ UNCHANGED <<backend_url, auto_refresh, refresh_seconds, _last_refresh,
                   now, button, health, auto_fetched, last_auto_at, view,
                   normVars, apiVars, gmVars>>

\* if st.button("Refresh latest snapshot"): ...
RefreshHandler ==
    /\ pc = "actions" /\ button = "refresh"
    /\ \E r2 \in LatestResponses :
          LET q2 == Request(backend_url, r2)
              rl == api_latest(q2)
          IN  /\ Loaded(rl)
              /\ status' = IF rl.ok THEN Status("success", rl.msg, rl.code)
                           ELSE Status("warning", rl.msg, rl.code)
              /\ last_latest' = Seen(q2)
    /\ sent' = sent \cup SentBy({"latest"})
    /\ last_fetch_at' = now
    /\ pc' = "auto"
    /\ UNCHANGED <<backend_url, auto_refresh, refresh_seconds, _last_refresh,
                   now, button, health, run_http, auto_fetched, last_auto_at,
                   view, normVars, apiVars, gmVars>>

\* the test of the auto-refresh block with > for >=
AutoDue_strict ==
    /\ auto_refresh
    /\ latest_metrics.kind # "none"
    /\ now - _last_refresh > refresh_seconds

\* the test of the auto-refresh block
AutoDue ==
    /\ auto_refresh
    /\ latest_metrics.kind # "none"
    /\ now - _last_refresh >= refresh_seconds

\* if auto_refresh: ... (the whole block)
AutoRefresh ==
    /\ pc = "auto"
    /\ IF AutoDue
       THEN /\ \E r2 \in LatestResponses :
                  LET q2 == Request(backend_url, r2)
                      rl == api_latest(q2)
                  IN  Loaded(rl) /\ last_latest' = Seen(q2)
            /\ _last_refresh' = now
            /\ auto_fetched' = TRUE
            /\ last_fetch_at' = now
            /\ last_auto_at' = now
            /\ sent' = sent \cup SentBy({"latest"})
       ELSE UNCHANGED <<latest_metrics, prev_metrics, last_latest,
                        _last_refresh, auto_fetched, last_fetch_at,
                        last_auto_at, sent>>
    /\ pc' = "render"
    /\ UNCHANGED <<backend_url, auto_refresh, refresh_seconds, now, button,
                   health, status, run_http, view, normVars, apiVars, gmVars>>

\* metrics = st.session_state["latest_metrics"]; if not metrics: warning and
\* st.stop(); else the KPI tiles of metrics_kpis(metrics)
Render ==
    /\ pc = "render"
    /\ view' = IF ~ObjTruthy(latest_metrics)
               THEN [NoView EXCEPT !.kind = "no_snapshot"]
               ELSE LET k == metrics_kpis(latest_metrics)
                        s == compute_risk_score(DictOf(k.raw))
                    IN  IF k.exc \/ s.exc
                        THEN [NoView EXCEPT !.kind = "exception"]
                        ELSE [kind |-> "tiles", k |-> k, risk |-> s.v,
                              caption |-> _fmt_ts(k.snapshot_time_utc)]
    /\ pc' = "done"
    /\ UNCHANGED <<backend_url, auto_refresh, refresh_seconds, latest_metrics,
                   prev_metrics, _last_refresh, now, button, health, status,
                   sent, run_http, last_latest, auto_fetched, last_fetch_at,
                   last_auto_at, normVars, apiVars, gmVars>>

Next ==
    \/ EditBackendUrl \/ ToggleAutoRefresh \/ MoveSlider \/ Rerun
    \/ ClickRun \/ ClickRefresh
    \/ Sidebar \/ RunHandler \/ RefreshHandler \/ AutoRefresh \/ Render

Spec == Init /\ [][Next]_vars

(***************************************************************************)
(* Claims on the session (checked under Spec)                              *)
(***************************************************************************)
\* C6 as stated: whenever the most recent GET /metrics/latest answered
\* status "empty", the run ends in the "no snapshot" state with no KPI
\* tiles, also when an earlier action had loaded a snapshot.
C6_EmptyIsNoSnapshot ==
    (pc = "done" /\ last_latest.kind = "empty") => view.kind = "no_snapshot"

\* C6 amended: when the most recent GET /metrics/latest answered "empty"
\* and no non-empty snapshot was loaded when it arrived, the run ends in the
\* "no snapshot" state; a non-empty snapshot loaded earlier stays loaded and
\* its tiles stay drawn.  Loading a non-empty snapshot whose KPIs are all
\* zero ends in the tiles state, with every tile 0.
C6_EmptyKeepsSnapshot ==
    pc = "done" =>
        /\ (last_latest.kind = "empty" /\ ~last_latest.loaded_before)
              => view.kind = "no_snapshot"
        /\ (last_latest.kind = "empty" /\ last_latest.loaded_before)
              => (view.kind = "tiles" /\ ObjTruthy(latest_metrics))
        /\ (last_latest.kind = "ok" /\ latest_metrics = ZeroSnapshot)
              => (view.kind = "tiles" /\ \A name \in KpiNames : view.k[name] = 0)

\* a Refresh answered "empty" with nothing loaded: the no-snapshot state
C6_Witness ==
    /\ pc = "done" /\ button = "refresh"
    /\ last_latest.kind = "empty" /\ ~last_latest.loaded_before
    /\ "latest" \in sent
    /\ view.kind = "no_snapshot"

\* C7: whenever POST /run answered with a status >= 400 in a Run action,
\* the status message at the end of that run is an error showing that
\* status code, whatever GET /metrics/latest answered afterwards.
C7_RunErrorShown ==
    (pc = "done" /\ run_http >= 400) =>
        (status.level = "error" /\ status.code = run_http)

\* C8: POST /run and GET /metrics/latest are sent only when backend_url is
\* non-empty and the health check of this backend_url succeeded.
C8_ValidatedFirst ==
    (sent \cap {"run", "latest"} # {}) => (backend_url # "" /\ health.ok)

\* C10 as stated: with auto-refresh on and a snapshot loaded, the
\* auto-refresh block fetches iff the time since the last refresh of the
\* snapshot, manual or automatic, is at least refresh_seconds; with
\* auto-refresh off or no snapshot loaded it does not fetch.
C10_SinceAnyRefresh ==
    [][pc = "auto" =>
          (auto_fetched' <=>
              /\ auto_refresh
              /\ latest_metrics.kind # "none"
              /\ now - last_fetch_at >= refresh_seconds)]_vars

\* C10 amended: the auto-refresh block calls api_latest iff auto-refresh is
\* on, latest_metrics is not None and the time since the last call made by
\* the auto-refresh block itself (none yet: always) is at least
\* refresh_seconds; a Run or Refresh fetch does not restart that interval.
C10_SinceLastAuto ==
    [][pc = "auto" =>
          (auto_fetched' <=>
              /\ auto_refresh
              /\ latest_metrics.kind # "none"
              /\ (last_auto_at = 0 \/ now - last_auto_at >= refresh_seconds))]_vars

\* the auto-refresh block fetched again, exactly one interval after its
\* previous fetch
C10_Witness ==
    /\ pc = "render" /\ auto_fetched
    /\ _last_refresh = now
    /\ now - Epoch = refresh_seconds

(***************************************************************************)
(* tools/ai_update.py: call_github_models, the retry loop around the POST  *)
(* to the chat completions endpoint.  The outcome of one POST is a record: *)
(*   exc      requests.post raised (no connection, timeout)                *)
(*   code     r.status_code                                                *)
(*   body     what r.json() holds: "invalid" (r.json() raises),            *)
(*            "malformed" (no choices[0].message.content: the subscript    *)
(*            raises), "content"                                           *)
(*   content  data["choices"][0]["message"]["content"]                     *)
(* SpecCalls runs either one call of call_github_models, one step per      *)
(* POST, sleep and raise, or one call of a backend client function of      *)
(* app.py; http_calls counts the requests.get / requests.post calls.       *)
(***************************************************************************)
MAX_RETRIES == 5

\* r.status_code in (429, 500, 502, 503, 504)
TransientCodes == {429, 500, 502, 503, 504}

\* r.raise_for_status() raises HTTPError on a 4xx or 5xx status
RaisesForStatus(code) == code >= 400 /\ code < 600

GmCodes == {200, 404, 429, 503}
Contents == {"a", "b"}
GmExc == [NoGmResp EXCEPT !.exc = TRUE]
GmResponses ==
    {GmExc} \cup
    [exc : {FALSE}, code : GmCodes, body : {"invalid", "malformed"},
     content : {"none"}] \cup
    [exc : {FALSE}, code : GmCodes, body : {"content"}, content : Contents]

\* the attempt reaches its return statement
Succeeds(o) ==
    /\ ~o.exc
    /\ o.code \notin TransientCodes
    /\ ~RaisesForStatus(o.code)
    /\ o.body = "content"

\* what a failed attempt stores in last_err
ErrorOf(o) ==
    IF o.exc THEN "RequestException"
    ELSE IF o.code \in TransientCodes THEN "RuntimeError(GitHub Models HTTP)"
    ELSE IF RaisesForStatus(o.code) THEN "HTTPError"
    ELSE IF o.body = "invalid" THEN "JSONDecodeError"
    ELSE "KeyError"

Min(a, b) == IF a <= b THEN a ELSE b

\* the backoff without its cap
backoff_uncapped(n) == 2 ^ n

\* min(2 ** attempt, 20)
backoff(n) == Min(2 ^ n, 20)

GmReturn(c) == [kind |-> "return", v |-> c, err |-> "none"]
GmRaise(e) == [kind |-> "raise", v |-> "RuntimeError", err |-> e]

\* Either the app's process (the client functions) or the tool's process,
\* at the first iteration of the loop: last_err = None, attempt = 1.
InitCalls ==
    /\ NormIdle /\ SessIdle /\ ApiIdle
    /\ gm_pc \in {"off", "post"}
    /\ attempt = IF gm_pc = "post" THEN 1 ELSE 0
    /\ gm_r = NoGmResp /\ last_err = "none"
    /\ sleeps = <<>> /\ outcomes = <<>> /\ gm_ret = NoGmRet

\* the try block of one iteration: the POST, then return or record the error
Post ==
    /\ gm_pc = "post"
    /\ \E o \in GmResponses :
        /\ gm_r' = o
        /\ outcomes' = Append(outcomes, Succeeds(o))
        /\ IF Succeeds(o)
           THEN /\ gm_pc' = "returned"
                /\ gm_ret' = GmReturn(o.content)
                /\ UNCHANGED last_err
           ELSE /\ gm_pc' = "sleep"
                /\ last_err' = ErrorOf(o)
                /\ UNCHANGED gm_ret
    /\ http_calls' = http_calls + 1
    /\ UNCHANGED <<attempt, sleeps, resp, ret, normVars, sessVars>>

\* time.sleep(min(2 ** attempt, 20)), then the next value of range(1,
\* MAX_RETRIES + 1) or the end of the loop
Sleep ==
    /\ gm_pc = "sleep"
    /\ sleeps' = Append(sleeps, backoff(attempt))
    /\ IF attempt + 1 < MAX_RETRIES + 1
       THEN attempt' = attempt + 1 /\ gm_pc' = "post"
       ELSE gm_pc' = "raise" /\ UNCHANGED attempt
    /\ UNCHANGED <<gm_r, last_err, outcomes, gm_ret, apiVars, normVars,
                   sessVars>>

\* raise RuntimeError(... {last_err})
GiveUp ==
    /\ gm_pc = "raise"
    /\ gm_ret' = GmRaise(last_err)
    /\ gm_pc' = "raised"
    /\ UNCHANGED <<attempt, gm_r, last_err, sleeps, outcomes, apiVars,
                   normVars, sessVars>>

\* one call of api_health, api_run_now or api_latest in the app's process
ClientCall == gm_pc = "off" /\ (CallHealth \/ CallRunNow \/ CallLatest)

NextCalls == ClientCall \/ Post \/ Sleep \/ GiveUp

\* The loop body is sequential code: the POST has a timeout and the sleep is
\* finite, so each step that is enabled is eventually taken.
SpecCalls ==
    /\ InitCalls /\ [][NextCalls]_vars
    /\ WF_vars(Post) /\ WF_vars(Sleep) /\ WF_vars(GiveUp)

C11_Sleep(i) == IF 2 ^ i < 20 THEN 2 ^ i ELSE 20
C11_Failed == Len(SelectSeq(outcomes, LAMBDA b : ~b))
C11_Safety ==
    /\ gm_pc # "off" =>
        /\ http_calls = Len(outcomes) /\ http_calls <= 5
        /\ \A i \in 1..Len(outcomes) :
              outcomes[i] => i = Len(outcomes) /\ gm_pc = "returned"
        /\ gm_pc = "returned" =>
              /\ outcomes[Len(outcomes)]
              /\ gm_ret = [kind |-> "return", v |-> gm_r.content,
                           err |-> "none"]
        /\ gm_pc # "returned" => gm_ret.kind # "return"
        /\ sleeps = [i \in 1..Len(sleeps) |-> C11_Sleep(i)]
        /\ Len(sleeps) = C11_Failed - (IF gm_pc = "sleep" THEN 1 ELSE 0)
        /\ gm_pc \in {"raise", "raised"} => C11_Failed = 5
        /\ C11_Failed = 5 => gm_pc \in {"sleep", "raise", "raised"}
        /\ gm_pc = "raised" <=> gm_ret.kind = "raise"
        /\ gm_ret.kind = "raise" => gm_ret.v = "RuntimeError"
    /\ gm_pc = "off" =>
        http_calls = (IF ret.fn = "none" THEN 0 ELSE 1)

\* C11: call_github_models terminates on every sequence of request
\* outcomes: it makes at most 5 POSTs, returns the content of the first
\* attempt that succeeds and makes no attempt after it, sleeps
\* min(2^attempt, 20) seconds after each failed attempt and raises
\* RuntimeError once the fifth attempt has failed; a call of api_health,
\* api_run_now or api_latest makes exactly one HTTP request.
C11_BoundedRetry ==
    /\ []C11_Safety
    /\ (gm_pc = "post") ~> (gm_pc \in {"returned", "raised"})

\* five attempts failed, the sleeps were 2, 4, 8, 16, 20 and the call raised
C11_Witness ==
    /\ gm_pc = "raised"
    /\ http_calls = 5
    /\ sleeps = <<2, 4, 8, 16, 20>>
    /\ gm_ret.kind = "raise"

(***************************************************************************)
(* The two snapshot slots of st.session_state                              *)
(***************************************************************************)
\* a step in which api_latest is called: a button handler, or the
\* auto-refresh block when its test passes
C12_Fetches == pc = "actions" \/ (pc = "auto" /\ auto_fetched')

\* C12: a GET /metrics/latest fetch that fails (exception, status other
\* than 200, status "empty") leaves latest_metrics and prev_metrics as they
\* were; one that succeeds puts the old latest_metrics into prev_metrics
\* and the fetched metrics into latest_metrics; every other step leaves
\* both unchanged.
C12_SnapshotFrame ==
    [][IF C12_Fetches /\ last_latest'.kind = "ok"
       THEN /\ prev_metrics' = latest_metrics
            /\ latest_metrics' = last_latest'.fetched
       ELSE UNCHANGED <<latest_metrics, prev_metrics>>]_vars

\* a fetch succeeded on a loaded snapshot, a later fetch failed, and both
\* slots still hold what the successful fetch left
C12_Witness ==
    /\ pc = "render"
    /\ last_latest.kind \in {"exception", "http_error", "empty"}
    /\ last_latest.loaded_before
    /\ latest_metrics = DataSnapshot
    /\ prev_metrics = ZeroSnapshot

====
